---------------------------- MODULE Spec2Model ----------------------------
(***************************************************************************)
(* Model of the writing-quality analyzer (src/utils/text_processor.py).    *)
(* A text is a sequence of one-character strings; offsets are 0-based and  *)
(* half-open as in Python, so text[start:end] is SubSeq(text, start+1,     *)
(* end).  Scores are exact rationals [n, d] with d > 0.                    *)
(***************************************************************************)
EXTENDS Integers, Sequences, FiniteSets, TLC

(***************************************************************************)
(* Characters and character classes of Python's re module (\w, \s, \d, .). *)
(***************************************************************************)
LowerLetters ==
  { "a","b","c","d","e","f","g","h","i","j","k","l","m",
    "n","o","p","q","r","s","t","u","v","w","x","y","z" }

UpperLetters ==
  { "A","B","C","D","E","F","G","H","I","J","K","L","M",
    "N","O","P","Q","R","S","T","U","V","W","X","Y","Z" }

Digits == {"0","1","2","3","4","5","6","7","8","9"}

Whitespace == {" ", "\t", "\n", "\r"}

\* \w
WordChars ==
  { "a","b","c","d","e","f","g","h","i","j","k","l","m",
    "n","o","p","q","r","s","t","u","v","w","x","y","z",
    "A","B","C","D","E","F","G","H","I","J","K","L","M",
    "N","O","P","Q","R","S","T","U","V","W","X","Y","Z",
    "0","1","2","3","4","5","6","7","8","9","_" }

Range(s) == {s[i] : i \in 1..Len(s)}

\* str.lower() on one character
LowerChar(c) ==
  CASE c = "A" -> "a"
    [] c = "B" -> "b"
    [] c = "C" -> "c"
    [] c = "D" -> "d"
    [] c = "E" -> "e"
    [] c = "F" -> "f"
    [] c = "G" -> "g"
    [] c = "H" -> "h"
    [] c = "I" -> "i"
    [] c = "J" -> "j"
    [] c = "K" -> "k"
    [] c = "L" -> "l"
    [] c = "M" -> "m"
    [] c = "N" -> "n"
    [] c = "O" -> "o"
    [] c = "P" -> "p"
    [] c = "Q" -> "q"
    [] c = "R" -> "r"
    [] c = "S" -> "s"
    [] c = "T" -> "t"
    [] c = "U" -> "u"
    [] c = "V" -> "v"
    [] c = "W" -> "w"
    [] c = "X" -> "x"
    [] c = "Y" -> "y"
    [] c = "Z" -> "z"
    [] OTHER -> c

\* str.lower()
Lower(text) == [i \in 1..Len(text) |-> LowerChar(text[i])]

InClass(c, class) ==
  CASE class = "w" -> c \in WordChars
    [] class = "s" -> c \in Whitespace
    [] class = "d" -> c \in Digits
    [] class = "." -> c # "\n"

Min(S) == CHOOSE x \in S : \A y \in S : x <= y

Max(S) == CHOOSE x \in S : \A y \in S : x >= y

(***************************************************************************)
(* Regular expressions.  A pattern is a tree of nodes; Ends(re, text, pos, *)
(* ic) is the sequence of offsets at which a match of re starting at       *)
(* offset pos can end, in the order in which the backtracking matcher of   *)
(* re tries them, so its head is the end of the match that re reports.     *)
(* ic is the re.IGNORECASE flag.                                           *)
(***************************************************************************)
Lit(s) == [k |-> "lit", s |-> s, sub |-> <<>>, lo |-> 0, hi |-> 0, greedy |-> TRUE]

Cat(subs) == [k |-> "cat", s |-> <<>>, sub |-> subs, lo |-> 0, hi |-> 0, greedy |-> TRUE]

Alt(subs) == [k |-> "alt", s |-> <<>>, sub |-> subs, lo |-> 0, hi |-> 0, greedy |-> TRUE]

\* class{lo,hi}, hi = -1 for no upper limit
Repeat(class, lo, hi, greedy) ==
  [k |-> "rep", s |-> <<class>>, sub |-> <<>>, lo |-> lo, hi |-> hi, greedy |-> greedy]

\* \b
Boundary == [k |-> "b", s |-> <<>>, sub |-> <<>>, lo |-> 0, hi |-> 0, greedy |-> TRUE]

DotStar == Repeat(".", 0, -1, TRUE)

DotStarLazy == Repeat(".", 0, -1, FALSE)

SpacePlus == Repeat("s", 1, -1, TRUE)

SpaceStar == Repeat("s", 0, -1, TRUE)

WordPlus == Repeat("w", 1, -1, TRUE)

DigitPlus == Repeat("d", 1, -1, TRUE)

Digit2 == Repeat("d", 2, 2, TRUE)

\* \b(a|b|...)\b
Word(alts) == Cat(<< Boundary, Alt(alts), Boundary >>)

IsWordAt(text, i) == i >= 1 /\ i <= Len(text) /\ text[i] \in WordChars

\* \b holds at offset pos: exactly one of the characters around it is a word character
AtBoundary(text, pos) == IsWordAt(text, pos) # IsWordAt(text, pos + 1)

LitAt(s, text, pos, ic) ==
  /\ pos + Len(s) <= Len(text)
  /\ \A i \in 1..Len(s) :
       (IF ic THEN LowerChar(text[pos + i]) ELSE text[pos + i]) = s[i]

\* the number of consecutive characters of the class from offset pos on, at most hi
RunLen(class, text, pos, hi) ==
  IF pos >= Len(text) \/ ~InClass(text[pos + 1], class) THEN 0
  ELSE LET stop == {j \in pos..(Len(text) - 1) : ~InClass(text[j + 1], class)}
           run  == IF stop = {} THEN Len(text) - pos ELSE Min(stop) - pos
       IN  IF hi >= 0 /\ run > hi THEN hi ELSE run

RECURSIVE Ends(_, _, _, _), CatEnds(_, _, _, _, _), AltEnds(_, _, _, _, _), Each(_, _, _, _, _, _, _)

Ends(re, text, pos, ic) ==
  CASE re.k = "cat" -> CatEnds(re.sub, 1, text, pos, ic)
    [] re.k = "alt" -> AltEnds(re.sub, 1, text, pos, ic)
    [] re.k = "lit" -> IF LitAt(re.s, text, pos, ic) THEN << pos + Len(re.s) >> ELSE << >>
    [] re.k = "b"   -> IF AtBoundary(text, pos) THEN << pos >> ELSE << >>
    [] re.k = "rep" ->
         LET run == RunLen(re.s[1], text, pos, re.hi)
             n   == run - re.lo + 1
         IN  IF n <= 0 THEN << >>
             ELSE [j \in 1..n |-> IF re.greedy THEN pos + run - (j - 1)
                                               ELSE pos + re.lo + (j - 1)]

\* the alternatives from the i-th on, tried in order
AltEnds(subs, i, text, pos, ic) ==
  IF i > Len(subs) THEN << >>
  ELSE Ends(subs[i], text, pos, ic) \o AltEnds(subs, i + 1, text, pos, ic)

\* the items from the i-th on, matched one after the other
CatEnds(subs, i, text, pos, ic) ==
  IF i > Len(subs) THEN << pos >>
  ELSE LET ends == Ends(subs[i], text, pos, ic)
       IN  Each(ends, 1, Len(ends), subs, i + 1, text, ic)

\* the rest of a concatenation continued from each of ends[lo..hi], in order
Each(ends, lo, hi, subs, i, text, ic) ==
  IF lo > hi THEN << >>
  ELSE IF lo = hi THEN CatEnds(subs, i, text, ends[lo], ic)
  ELSE LET mid == (lo + hi) \div 2
       IN  Each(ends, lo, mid, subs, i, text, ic) \o Each(ends, mid + 1, hi, subs, i, text, ic)

\* a quick test that fails only where re cannot match at offset pos: the
\* first item of re is tried on its own
CanStart(re, text, pos, ic) ==
  IF re.k # "cat" \/ re.sub = << >> THEN TRUE
  ELSE LET first == re.sub[1]
       IN  CASE first.k = "b"   -> AtBoundary(text, pos)
             [] first.k = "rep" -> first.lo = 0
                                   \/ (pos < Len(text) /\ InClass(text[pos + 1], first.s[1]))
             [] first.k = "lit" -> LitAt(first.s, text, pos, ic)
             [] OTHER           -> TRUE

\* the result of trying re at offset pos
Try(re, text, pos, ic) ==
  IF CanStart(re, text, pos, ic) THEN Ends(re, text, pos, ic) ELSE << >>

RECURSIVE Scan(_, _, _)

\* the non-overlapping matches from offset pos on, left to right; ends[p] is
\* the result of trying the pattern at offset p
Scan(ends, n, pos) ==
  LET starts == {p \in pos..n : ends[p] # << >>}
  IN  IF starts = {} THEN << >>
      ELSE LET s == Min(starts)
               e == ends[s][1]
           IN  << [start |-> s, end |-> e] >>
                 \o Scan(ends, n, IF e > s THEN e ELSE s + 1)

\* pattern.finditer(text): the matches as [start, end] spans
FindIter(re, text, ic) ==
  Scan([p \in 0..Len(text) |-> Try(re, text, p, ic)], Len(text), 0)

\* re.search(pattern, text) is not None
Search(re, text, ic) == \E pos \in 0..Len(text) : Try(re, text, pos, ic) # << >>

(***************************************************************************)
(* The pattern tables of TextAnalyzer.                                     *)
(***************************************************************************)
CLICHES ==
  << Word(<< Lit(<<"t","h","i","n","k","i","n","g"," ","o","u","t","s","i","d","e"," ","t","h","e"," ","b","o","x">>),
              Lit(<<"p","u","s","h"," ","t","h","e"," ","e","n","v","e","l","o","p","e">>),
              Lit(<<"l","o","w"," ","h","a","n","g","i","n","g"," ","f","r","u","i","t">>),
              Lit(<<"s","y","n","e","r","g","y">>),
              Lit(<<"l","e","v","e","r","a","g","e">>) >>),
     Word(<< Lit(<<"a","t"," ","t","h","e"," ","e","n","d"," ","o","f"," ","t","h","e"," ","d","a","y">>),
              Lit(<<"m","o","v","i","n","g"," ","f","o","r","w","a","r","d">>),
              Lit(<<"g","o","i","n","g"," ","f","o","r","w","a","r","d">>),
              Lit(<<"c","i","r","c","l","e"," ","b","a","c","k">>),
              Lit(<<"t","o","u","c","h"," ","b","a","s","e">>) >>),
     Word(<< Lit(<<"g","a","m","e"," ","c","h","a","n","g","e","r">>),
              Lit(<<"p","a","r","a","d","i","g","m"," ","s","h","i","f","t">>),
              Lit(<<"b","e","s","t"," ","p","r","a","c","t","i","c","e">>),
              Lit(<<"t","h","o","u","g","h","t"," ","l","e","a","d","e","r","s","h","i","p">>),
              Lit(<<"d","e","e","p"," ","d","i","v","e">>) >>),
     Word(<< Lit(<<"i","m","p","a","c","t","f","u","l">>),
              Lit(<<"s","c","a","l","a","b","l","e">>),
              Lit(<<"d","i","s","r","u","p","t","i","v","e">>),
              Lit(<<"i","n","n","o","v","a","t","i","v","e">>),
              Lit(<<"a","g","i","l","e">>),
              Lit(<<"s","t","r","e","a","m","l","i","n","e">>) >>),
     Word(<< Lit(<<"w","o","r","l","d"," ","c","l","a","s","s">>),
              Lit(<<"c","u","t","t","i","n","g"," ","e","d","g","e">>),
              Lit(<<"s","t","a","t","e"," ","o","f"," ","t","h","e"," ","a","r","t">>),
              Lit(<<"n","e","x","t"," ","g","e","n","e","r","a","t","i","o","n">>),
              Lit(<<"f","u","t","u","r","e"," ","r","e","a","d","y">>) >>),
     Word(<< Cat(<< Lit(<<"u","n","l","o","c","k">>), DotStar, Lit(<<"p","o","t","e","n","t","i","a","l">>) >>),
              Cat(<< Lit(<<"d","r","i","v","e">>), DotStar, Lit(<<"v","a","l","u","e">>) >>),
              Cat(<< Lit(<<"d","e","l","i","v","e","r">>), DotStar, Lit(<<"r","e","s","u","l","t","s">>) >>),
              Cat(<< Lit(<<"m","a","x","i","m","i","z","e">>), DotStar, Lit(<<"r","o","i">>) >>) >>),
     Word(<< Lit(<<"i","t"," ","i","s"," ","w","h","a","t"," ","i","t"," ","i","s">>),
              Lit(<<"t","h","i","n","k"," ","o","u","t","s","i","d","e"," ","t","h","e"," ","b","o","x">>),
              Lit(<<"h","i","t"," ","t","h","e"," ","g","r","o","u","n","d"," ","r","u","n","n","i","n","g">>) >>),
     Word(<< Lit(<<"a","p","p","l","e","s"," ","t","o"," ","a","p","p","l","e","s">>),
              Lit(<<"w","i","n","-","w","i","n">>),
              Lit(<<"b","a","l","l","p","a","r","k">>),
              Lit(<<"e","l","e","p","h","a","n","t"," ","i","n"," ","t","h","e"," ","r","o","o","m">>),
              Lit(<<"p","e","r","f","e","c","t"," ","s","t","o","r","m">>) >>) >>

WEAK_PATTERNS ==
  << Word(<< Lit(<<"m","a","y","b","e">>),
              Lit(<<"p","e","r","h","a","p","s">>),
              Lit(<<"m","i","g","h","t">>),
              Lit(<<"c","o","u","l","d">>),
              Lit(<<"p","o","s","s","i","b","l","y">>),
              Lit(<<"p","o","t","e","n","t","i","a","l","l","y">>) >>),
     Word(<< Lit(<<"s","o","m","e"," ","p","e","o","p","l","e"," ","s","a","y">>),
              Lit(<<"i","t"," ","i","s"," ","s","a","i","d"," ","t","h","a","t">>),
              Lit(<<"m","a","n","y"," ","b","e","l","i","e","v","e">>),
              Lit(<<"e","x","p","e","r","t","s"," ","c","l","a","i","m">>) >>),
     Word(<< Lit(<<"o","b","v","i","o","u","s","l","y">>),
              Lit(<<"c","l","e","a","r","l","y">>),
              Lit(<<"u","n","d","o","u","b","t","e","d","l","y">>),
              Lit(<<"c","e","r","t","a","i","n","l","y">>),
              Lit(<<"d","e","f","i","n","i","t","e","l","y">>) >>),
     Word(<< Lit(<<"j","u","s","t">>),
              Lit(<<"s","i","m","p","l","y">>),
              Lit(<<"o","n","l","y">>),
              Lit(<<"m","e","r","e","l","y">>),
              Lit(<<"b","a","s","i","c","a","l","l","y">>) >>),
     Cat(<< Word(<< Lit(<<"v","e","r","y">>),
                    Lit(<<"r","e","a","l","l","y">>),
                    Lit(<<"q","u","i","t","e">>),
                    Lit(<<"r","a","t","h","e","r">>),
                    Lit(<<"p","r","e","t","t","y">>),
                    Lit(<<"f","a","i","r","l","y">>) >>),
            SpacePlus, WordPlus >>),
     Word(<< Lit(<<"i"," ","f","e","e","l"," ","l","i","k","e">>),
              Lit(<<"i"," ","t","h","i","n","k"," ","t","h","a","t">>),
              Lit(<<"i","n"," ","m","y"," ","o","p","i","n","i","o","n">>),
              Lit(<<"i"," ","b","e","l","i","e","v","e">>) >>),
     Word(<< Lit(<<"e","t","c">>),
              Lit(<<"a","n","d"," ","s","o"," ","o","n">>),
              Lit(<<"a","n","d"," ","s","o"," ","f","o","r","t","h">>),
              Lit(<<"y","o","u"," ","k","n","o","w"," ","w","h","a","t"," ","i"," ","m","e","a","n">>) >>) >>

EVIDENCE_PATTERNS ==
  << Word(<< Lit(<<"d","a","t","a"," ","s","h","o","w","s">>),
              Lit(<<"r","e","s","e","a","r","c","h"," ","i","n","d","i","c","a","t","e","s">>),
              Lit(<<"s","t","u","d","y"," ","f","o","u","n","d">>),
              Lit(<<"a","c","c","o","r","d","i","n","g"," ","t","o">>) >>),
     Word(<< Lit(<<"f","o","r"," ","e","x","a","m","p","l","e">>),
              Lit(<<"f","o","r"," ","i","n","s","t","a","n","c","e">>),
              Lit(<<"s","p","e","c","i","f","i","c","a","l","l","y">>),
              Lit(<<"n","a","m","e","l","y">>),
              Lit(<<"s","u","c","h"," ","a","s">>) >>),
     Word(<< Lit(<<"d","i","g","i","t","a","l">>),
              Lit(<<"p","e","r","c","e","n","t">>),
              Cat(<< DigitPlus, SpaceStar,
                     Alt(<< Lit(<<"%">>), Lit(<<"p","e","r","c","e","n","t">>), Lit(<<"m","i","l","l","i","o","n">>), Lit(<<"b","i","l","l","i","o","n">>) >>) >>) >>),
     Word(<< Lit(<<"s","i","n","c","e">>),
              Lit(<<"b","e","c","a","u","s","e">>),
              Lit(<<"t","h","e","r","e","f","o","r","e">>),
              Lit(<<"t","h","u","s">>),
              Lit(<<"c","o","n","s","e","q","u","e","n","t","l","y">>),
              Lit(<<"a","s"," ","a"," ","r","e","s","u","l","t">>) >>),
     Word(<< Cat(<< Lit(<<"i","n"," ","2","0">>), Digit2 >>),
              Lit(<<"l","a","s","t"," ","y","e","a","r">>),
              Lit(<<"o","v","e","r"," ","t","h","e"," ","p","a","s","t">>),
              Lit(<<"r","e","c","e","n","t","l","y"," ","p","u","b","l","i","s","h","e","d">>) >>) >>

strong_verbs ==
  << <<"t","r","a","n","s","f","o","r","m">>,
     <<"d","i","s","r","u","p","t">>,
     <<"c","r","e","a","t","e">>,
     <<"b","u","i","l","d">>,
     <<"d","e","s","i","g","n">>,
     <<"e","n","g","i","n","e","e","r">>,
     <<"a","r","c","h","i","t","e","c","t">> >>

\* the literal patterns of _calc_evidence (lines 145 and 148) and _calc_voice (line 173)
STAT_PATTERN ==
  Cat(<< DigitPlus, SpaceStar,
         Alt(<< Lit(<<"%">>), Lit(<<"p","e","r","c","e","n","t">>), Lit(<<"m","i","l","l","i","o","n">>), Lit(<<"b","i","l","l","i","o","n">>), Lit(<<"t","h","o","u","s","a","n","d">>) >>) >>)

CITATION_PATTERN ==
  Alt(<< Cat(<< Lit(<<"[">>), DotStarLazy, Lit(<<"]">>) >>),
         Cat(<< Lit(<<"(">>), DotStarLazy, Lit(<<")">>) >>),
         Lit(<<"e","t"," ","a","l",".">>), Lit(<<".","p","d","f">>), Lit(<<"h","t","t","p">>) >>)

ACTIVE_PATTERN ==
  Cat(<< Boundary, Alt(<< Lit(<<"w","e">>), Lit(<<"i">>), Lit(<<"o","u","r">>), Lit(<<"m","y">>) >>),
         SpacePlus, WordPlus, Lit(<<"e","d">>), Boundary >>)

\* rf'\b{verb}'
VerbPattern(verb) == Cat(<< Boundary, Lit(verb) >>)

(***************************************************************************)
(* Strings: slicing, str.strip, str.split.                                 *)
(***************************************************************************)
\* text[start:end] for 0 <= start, with Python's clipping at the end of the text
Slice(text, start, end) ==
  SubSeq(text, start + 1, IF end > Len(text) THEN Len(text) ELSE end)

\* text[start:]
SliceFrom(text, start) == SubSeq(text, start + 1, Len(text))

\* len(text.strip())
StripLen(text) ==
  LET ink == {i \in 1..Len(text) : text[i] \notin Whitespace}
  IN  IF ink = {} THEN 0 ELSE Max(ink) - Min(ink) + 1

\* the 1-based positions at which a whitespace-delimited word starts
WordStarts(text) ==
  {i \in 1..Len(text) :
     text[i] \notin Whitespace /\ (i = 1 \/ text[i - 1] \in Whitespace)}

\* the last position of the word that starts at position i
WordEnd(text, i) ==
  LET ws == {j \in i..Len(text) : text[j] \in Whitespace}
  IN  IF ws = {} THEN Len(text) ELSE Min(ws) - 1

\* len(text.split())
SplitLen(text) == Cardinality(WordStarts(text))

\* set(text.split())
SplitSet(text) == {SubSeq(text, i, WordEnd(text, i)) : i \in WordStarts(text)}

(***************************************************************************)
(* Exact arithmetic on the scores: a score is a fraction [n, d], d > 0.    *)
(***************************************************************************)
RECURSIVE GCD(_, _)
GCD(a, b) == IF b = 0 THEN a ELSE GCD(b, a % b)

Abs(x) == IF x < 0 THEN -x ELSE x

Frac(n, d) == LET g == GCD(Abs(n), d) IN [n |-> n \div g, d |-> d \div g]

Whole(k) == [n |-> k, d |-> 1]

Add(a, b) == Frac(a.n * b.d + b.n * a.d, a.d * b.d)

Mul(a, b) == Frac(a.n * b.n, a.d * b.d)

Lt(a, b) == a.n * b.d < b.n * a.d

Le(a, b) == a.n * b.d <= b.n * a.d

\* max(0, x), min(100, x) and max(0, min(100, x))
Floor0(x) == IF Lt(x, Whole(0)) THEN Whole(0) ELSE x

Cap100(x) == IF Lt(Whole(100), x) THEN Whole(100) ELSE x

Clamp(x) == Floor0(Cap100(x))

\* round(x, 1): the nearest tenth; the binary float next to a decimal tie lies
\* on either side of it, here an exact tie goes to the even tenth
Round1(x) ==
  LET m == 10 * x.n
      q == m \div x.d
      r == m % x.d
      t == IF 2 * r < x.d THEN q
           ELSE IF 2 * r > x.d THEN q + 1
           ELSE IF q % 2 = 0 THEN q ELSE q + 1
  IN  Frac(t, 10)

(***************************************************************************)
(* Detection (lines 98-122).                                               *)
(***************************************************************************)
\* the issue of a match with the matched text taken from the lowered text
IssueLowered(text, m, type, severity) ==
  [text |-> Slice(Lower(text), m.start, m.end), start |-> m.start, end |-> m.end,
   type |-> type, severity |-> severity]

Issue(text, m, type, severity) ==
  [text |-> Slice(text, m.start, m.end), start |-> m.start, end |-> m.end,
   type |-> type, severity |-> severity]

RECURSIVE FindAllBackwards(_, _, _, _, _)

\* the issues of the patterns from the i-th on, the last pattern first
FindAllBackwards(patterns, i, text, type, severity) ==
  IF i > Len(patterns) THEN << >>
  ELSE LET ms == FindIter(patterns[i], text, TRUE)
       IN  FindAllBackwards(patterns, i + 1, text, type, severity)
             \o [j \in 1..Len(ms) |-> Issue(text, ms[j], type, severity)]

RECURSIVE FindAll(_, _, _, _, _)

\* the issues of the patterns from the i-th on, pattern by pattern
FindAll(patterns, i, text, type, severity) ==
  IF i > Len(patterns) THEN << >>
  ELSE LET ms == FindIter(patterns[i], text, TRUE)
       IN  [j \in 1..Len(ms) |-> Issue(text, ms[j], type, severity)]
             \o FindAll(patterns, i + 1, text, type, severity)

_find_cliches(text) == FindAll(CLICHES, 1, text, "cliche", "high")

_find_weak_claims(text) == FindAll(WEAK_PATTERNS, 1, text, "weak_claim", "medium")

(***************************************************************************)
(* Scoring (lines 124-180).                                                *)
(***************************************************************************)
\* the originality score with the length factor applied after the clamp
_calc_originality_clamped_first(text, cliches, weak_claims) ==
  LET words        == Lower(text)
      n            == SplitLen(words)
      unique_ratio == IF n > 0 THEN Frac(Cardinality(SplitSet(words)), n) ELSE Whole(0)
      base_score   == Add(Whole(100 - Len(cliches) * 8 - Len(weak_claims) * 3),
                          Mul(unique_ratio, Whole(10)))
      clamped      == Clamp(base_score)
  IN  IF Len(text) < 100 THEN Mul(clamped, Frac(8, 10)) ELSE clamped

\* the originality score with the cliche deduction added instead of subtracted
_calc_originality_added(text, cliches, weak_claims) ==
  LET words        == Lower(text)
      n            == SplitLen(words)
      unique_ratio == IF n > 0 THEN Frac(Cardinality(SplitSet(words)), n) ELSE Whole(0)
      base_score   == Add(Whole(100 + Len(cliches) * 8 - Len(weak_claims) * 3),
                          Mul(unique_ratio, Whole(10)))
      scaled       == IF Len(text) < 100 THEN Mul(base_score, Frac(8, 10)) ELSE base_score
  IN  Clamp(scaled)

_calc_originality(text, cliches, weak_claims) ==
  LET words        == Lower(text)
      n            == SplitLen(words)
      unique_ratio == IF n > 0 THEN Frac(Cardinality(SplitSet(words)), n) ELSE Whole(0)
      base_score   == Add(Whole(100 - Len(cliches) * 8 - Len(weak_claims) * 3),
                          Mul(unique_ratio, Whole(10)))
      scaled       == IF Len(text) < 100 THEN Mul(base_score, Frac(8, 10)) ELSE base_score
  IN  Clamp(scaled)

RECURSIVE EvidenceMatches(_, _)

\* the sum of len(pattern.findall(text)) over the evidence patterns from the i-th on
EvidenceMatches(i, text) ==
  IF i > Len(EVIDENCE_PATTERNS) THEN 0
  ELSE Len(FindIter(EVIDENCE_PATTERNS[i], text, TRUE)) + EvidenceMatches(i + 1, text)

\* the evidence score with each pattern counted once however often it matches
_calc_evidence_once_per_pattern(text) ==
  LET hit     == {i \in 1..Len(EVIDENCE_PATTERNS) : Search(EVIDENCE_PATTERNS[i], text, TRUE)}
      matched == 40 + Cardinality(hit) * 8
      stats   == IF Search(STAT_PATTERN, text, TRUE) THEN 15 ELSE 0
      cites   == IF Search(CITATION_PATTERN, text, FALSE) THEN 10 ELSE 0
  IN  Cap100(Whole(matched + stats + cites))

_calc_evidence(text) ==
  LET matched == 40 + EvidenceMatches(1, text) * 8
      stats   == IF Search(STAT_PATTERN, text, TRUE) THEN 15 ELSE 0
      cites   == IF Search(CITATION_PATTERN, text, FALSE) THEN 10 ELSE 0
  IN  Cap100(Whole(matched + stats + cites))

\* the outcome of the body of the try block (lines 154-164) on the answers ts
\* of the readability library: a value, or an exception
ClarityBody(ts) ==
  IF ts.raises # "none" THEN [raised |-> TRUE, value |-> Whole(0)]
  ELSE LET normalized == Clamp(ts.flesch)
           avg        == IF ts.sentences > 0 THEN Frac(ts.words, ts.sentences) ELSE Whole(0)
           penalised  == IF Lt(Whole(25), avg)
                           THEN Add(normalized, Mul(Add(avg, Whole(-25)), Whole(-2)))
                           ELSE normalized
       IN  [raised |-> FALSE, value |-> Clamp(penalised)]

\* the clarity score without the except clause
_calc_clarity_unguarded(text, ts) == ClarityBody(ts)

_calc_clarity(text, ts) ==
  LET body == ClarityBody(ts)
  IN  IF body.raised THEN [raised |-> FALSE, value |-> Whole(70)] ELSE body

_calc_voice(text, weak_claims) ==
  LET hedges == Cardinality({j \in 1..Len(weak_claims) : weak_claims[j].type = "weak_claim"})
      active == IF Search(ACTIVE_PATTERN, text, TRUE) THEN 10 ELSE 0
      strong == Cardinality({v \in 1..Len(strong_verbs) :
                               Search(VerbPattern(strong_verbs[v]), text, TRUE)})
  IN  Cap100(Whole(80 - hedges * 5 + active + strong * 3))

\* the weighted sum taken of the rounded components
WeightedOfRounded(orig, evid, clar, voice) ==
  Add(Add(Mul(Round1(orig), Frac(3, 10)), Mul(Round1(evid), Frac(25, 100))),
      Add(Mul(Round1(clar), Frac(25, 100)), Mul(Round1(voice), Frac(2, 10))))

\* line 76
Weighted(orig, evid, clar, voice) ==
  Add(Add(Mul(orig, Frac(3, 10)), Mul(evid, Frac(25, 100))),
      Add(Mul(clar, Frac(25, 100)), Mul(voice, Frac(2, 10))))

(***************************************************************************)
(* Suggestions (lines 182-205).  A suggestion is <<head, quoted, tail>>:   *)
(* the fixed wording around the quoted cliche, which is empty but in the   *)
(* first rule.                                                             *)
(***************************************************************************)
Fixed(wording) == << wording, << >>, "" >>

SUGGEST_CLICHE(quoted) == << "Replace cliches like '", quoted, "' with specific details" >>

SUGGEST_EVIDENCE == Fixed("Add specific data, examples, or citations to strengthen claims")

SUGGEST_CLARITY == Fixed("Break long sentences into shorter, punchier statements")

SUGGEST_VOICE == Fixed("Remove hedging words ('maybe', 'perhaps') to sound more confident")

SUGGEST_ORIGINALITY == Fixed("Add unexpected metaphors or personal anecdotes to stand out")

SUGGEST_EXPAND == Fixed("Expand with more specific details - shallow content averages out")

SUGGEST_PRAISE == Fixed("Great work! Your writing shows distinctive voice and depth.")

\* [c['text'] for c in cliches]
Texts(issues) == [j \in 1..Len(issues) |-> issues[j].text]

\* the orders in which list(set(texts)) can enumerate the distinct texts: the
\* iteration order of a set of strings depends on the interpreter's string
\* hashing, which is seeded per process
SetOrders(texts) ==
  LET S == Range(texts)
      n == Cardinality(S)
  IN  {o \in [1..n -> S] : \A a, b \in 1..n : a # b => o[a] # o[b]}

\* unique[:3]
First3(unique) == SubSeq(unique, 1, IF Len(unique) > 3 THEN 3 ELSE Len(unique))

\* the rules as an if/elif chain: the first rule that holds gives the only suggestion
_generate_suggestions_chained(text, cliches, weak_claims, orig, evid, clar, voice, unique) ==
  IF cliches # << >> THEN << SUGGEST_CLICHE(First3(unique)[1]) >>
  ELSE IF Lt(evid, Whole(60)) THEN << SUGGEST_EVIDENCE >>
  ELSE IF Lt(clar, Whole(60)) THEN << SUGGEST_CLARITY >>
  ELSE IF Lt(voice, Whole(60)) THEN << SUGGEST_VOICE >>
  ELSE IF Lt(orig, Whole(50)) THEN << SUGGEST_ORIGINALITY >>
  ELSE IF SplitLen(text) < 50 THEN << SUGGEST_EXPAND >>
  ELSE << SUGGEST_PRAISE >>

\* unique is list(set([c['text'] for c in cliches])) as the interpreter enumerates it
_generate_suggestions(text, cliches, weak_claims, orig, evid, clar, voice, unique) ==
  LET unique_cliches == First3(unique)
      suggestions ==
        (IF cliches # << >> THEN << SUGGEST_CLICHE(unique_cliches[1]) >> ELSE << >>)
        \o (IF Lt(evid, Whole(60)) THEN << SUGGEST_EVIDENCE >> ELSE << >>)
        \o (IF Lt(clar, Whole(60)) THEN << SUGGEST_CLARITY >> ELSE << >>)
        \o (IF Lt(voice, Whole(60)) THEN << SUGGEST_VOICE >> ELSE << >>)
        \o (IF Lt(orig, Whole(50)) THEN << SUGGEST_ORIGINALITY >> ELSE << >>)
        \o (IF SplitLen(text) < 50 THEN << SUGGEST_EXPAND >> ELSE << >>)
  IN  IF suggestions # << >> THEN suggestions ELSE << SUGGEST_PRAISE >>

(***************************************************************************)
(* Highlighting (lines 207-221).                                           *)
(***************************************************************************)
CLICHE_COLOR == <<"#","f","4","3","f","5","e">>

WEAK_COLOR == <<"#","f","5","9","e","0","b">>

MarkOpen(color) ==
  <<"<","m","a","r","k"," ","s","t","y","l","e","=","\"","b","a","c","k","g","r","o","u","n","d",":"," ">> \o color \o <<"4","0",";"," ","c","o","l","o","r",":"," ">> \o color
    \o <<";"," ","p","a","d","d","i","n","g",":"," ","2","p","x"," ","4","p","x",";"," ","b","o","r","d","e","r","-","r","a","d","i","u","s",":"," ","4","p","x",";"," ","f","o","n","t","-","w","e","i","g","h","t",":"," ","6","0","0",";","\"",">">>

MarkClose == <<"<","/","m","a","r","k",">">>

\* the issues by ascending start, issues of equal start in their order in the list
SortedByStart(issues) ==
  LET n == Len(issues)
      place(j) == 1 + Cardinality({m \in 1..n : issues[m].start < issues[j].start})
                    + Cardinality({m \in 1..(j - 1) : issues[m].start = issues[j].start})
  IN  [q \in 1..n |-> issues[CHOOSE j \in 1..n : place(j) = q]]

\* sorted(issues, key=lambda x: x['start'], reverse=True): descending start,
\* issues of equal start in their order in the list (the sort is stable)
SortedByStartReverse(issues) ==
  LET n == Len(issues)
      place(j) == 1 + Cardinality({m \in 1..n : issues[m].start > issues[j].start})
                    + Cardinality({m \in 1..(j - 1) : issues[m].start = issues[j].start})
  IN  [q \in 1..n |-> issues[CHOOSE j \in 1..n : place(j) = q]]

\* lines 214-219: one pass of the loop, on the working string result
Splice(result, text, issue) ==
  LET start       == issue.start
      end         == issue.end
      snippet     == Slice(text, start, end)
      color       == IF issue.type = "cliche" THEN CLICHE_COLOR ELSE WEAK_COLOR
      replacement == MarkOpen(color) \o snippet \o MarkClose
  IN  Slice(result, 0, start) \o replacement \o SliceFrom(result, end)

(***************************************************************************)
(* The inputs.  A text is two phrases of the vocabulary joined by a space  *)
(* (an empty phrase gives leading, trailing or no text at all), one of the *)
(* example texts of the application (src/app.py, lines 115-119), or a       *)
(* text of fifty words.                                                    *)
(***************************************************************************)
VocabSize == 8

MaxCalls == 2

MaxGap == 1

MaxInserts == 1

Vocabulary ==
  << << >>,
     <<"m","a","y","b","e">>,
     <<"l","e","v","e","r","a","g","e">>,
     <<"s","y","n","e","r","g","y">>,
     <<"v","e","r","y"," ","i","n","n","o","v","a","t","i","v","e">>,
     <<"m","a","y","b","e"," ","p","e","r","h","a","p","s"," ","m","i","g","h","t"," ","c","o","u","l","d"," ","p","o","s","s","i","b","l","y"," ","p","o","t","e","n","t","i","a","l","l","y"," ","j","u","s","t"," ","s","i","m","p","l","y"," ","o","n","l","y">>,
     <<"w","e"," ","c","r","e","a","t","e","d"," ","7","3","%"," ","o","f"," ","t","h","e"," ","(","n","=","1","2",")"," ","b","u","i","l","d","s">>,
     <<"w","e"," ","t","e","s","t","e","d"," ","a","g","i","l","e"," ","n","o","w">>,
     <<"I"," ","t","h","i","n","k"," ","t","h","a","t">>,
     <<"s","i","n","c","e"," ","2","0","2","3"," ","d","a","t","a"," ","s","h","o","w","s">> >>

Phrases == {Vocabulary[v] : v \in 1..(IF VocabSize > Len(Vocabulary) THEN Len(Vocabulary) ELSE VocabSize)}

EXAMPLE_1 ==
  <<"W","e"," ","n","e","e","d"," ","t","o"," ","l","e","v","e","r","a","g","e"," ","o","u","r"," ","c","o","r","e"," ","c","o","m","p","e","t","e","n","c","i","e","s"," ","t","o"," ","c","r","e","a","t","e"," ","s","y","n","e","r","g","y"," ","a","n","d"," ","m","o","v","e"," ","t","h","e"," ","n","e","e","d","l","e"," ","o","n"," ","t","h","i","s"," ","g","a","m","e","-","c","h","a","n","g","i","n","g"," ","i","n","i","t","i","a","t","i","v","e",".">>

EXAMPLE_2 ==
  <<"T","h","e"," ","d","a","t","a"," ","s","h","o","w","s"," ","t","h","a","t"," ","7","3","%"," ","o","f"," ","u","s","e","r","s"," ","a","b","a","n","d","o","n","e","d"," ","t","h","e"," ","c","h","e","c","k","o","u","t"," ","p","r","o","c","e","s","s"," ","a","t"," ","t","h","e"," ","p","a","y","m","e","n","t"," ","s","t","e","p",","," ","s","u","g","g","e","s","t","i","n","g"," ","a"," ","f","r","i","c","t","i","o","n"," ","p","o","i","n","t"," ","w","e"," ","n","e","e","d"," ","t","o"," ","a","d","d","r","e","s","s",".">>

EXAMPLE_3 ==
  <<"I"," ","t","h","i","n","k"," ","t","h","a","t"," ","m","a","y","b","e"," ","w","e"," ","s","h","o","u","l","d"," ","p","r","o","b","a","b","l","y"," ","c","o","n","s","i","d","e","r"," ","l","o","o","k","i","n","g"," ","i","n","t","o"," ","p","o","s","s","i","b","l","y"," ","i","m","p","l","e","m","e","n","t","i","n","g"," ","s","o","m","e"," ","s","o","r","t"," ","o","f"," ","s","o","l","u","t","i","o","n"," ","a","t"," ","s","o","m","e"," ","p","o","i","n","t",".">>

Examples == {EXAMPLE_1, EXAMPLE_2, EXAMPLE_3}

\* a text of exactly 50 words without cliches and hedges, with six matches of
\* the evidence patterns, a statistic and a parenthetical reference
FIFTY_WORDS ==
  <<"s","i","n","c","e"," ","2","0","2","3"," ","d","a","t","a"," ","s","h","o","w","s"," ","7","3","%"," ","o","f"," ","(","n","=","1","2",")"," ","t","h","u","s"," ","t","h","u","s"," ","t","h","u","s"," ","a"," ","b"," ","c"," ","d"," ","e"," ","f"," ","g"," ","h"," ","j"," ","k"," ","a"," ","b"," ","c"," ","d"," ","e"," ","f"," ","g"," ","h"," ","j"," ","k"," ","a"," ","b"," ","c"," ","d"," ","e"," ","f"," ","g"," ","h"," ","j"," ","k"," ","a"," ","b"," ","c"," ","d"," ","e"," ","f"," ","g"," ","h"," ","j"," ","k">>

Inputs == {a \o << " " >> \o b : a, b \in Phrases} \cup Examples \cup {FIFTY_WORDS, << >>}

\* the phrases a user adds to a text: the known cliches of the vocabulary
InsertPhrases == {<<"l","e","v","e","r","a","g","e">>, <<"s","y","n","e","r","g","y">>}

\* the answers of the readability library (textstat) to one text: the call
\* that raises, if any, and the values of flesch_reading_ease,
\* sentence_count and lexicon_count
TextstatOutcomes ==
  { [raises |-> "flesch_reading_ease", flesch |-> Whole(0), sentences |-> 0, words |-> 0],
    [raises |-> "lexicon_count", flesch |-> Whole(50), sentences |-> 1, words |-> 0],
    [raises |-> "none", flesch |-> Frac(6486, 100), sentences |-> 2, words |-> 18],
    [raises |-> "none", flesch |-> Frac(5996, 100), sentences |-> 2, words |-> 18],
    [raises |-> "none", flesch |-> Frac(1212, 10), sentences |-> 1, words |-> 61],
    [raises |-> "none", flesch |-> Frac(-125, 10), sentences |-> 0, words |-> 0] }

\* the offsets at which a phrase can be added as a word of its own: before
\* the word number gap (0-based), or at the end when there is no such word
InsertAt(text, phrase, gap) ==
  LET starts == WordStarts(text)
      before == {i \in starts : Cardinality({j \in starts : j < i}) = gap}
  IN  IF before = {} THEN text \o << " " >> \o phrase
      ELSE LET p == (CHOOSE i \in before : TRUE) - 1
           IN  Slice(text, 0, p) \o phrase \o << " " >> \o SliceFrom(text, p)

(***************************************************************************)
(* The state: one interpreter process that calls analyze on the text at    *)
(* hand, one call after the other.                                         *)
(***************************************************************************)
VARIABLES
  text,          \* the argument of the current (or next) call of analyze
  textstat,      \* the answers of the readability library in this run
  edit,          \* how text came from the text of the previous call
  calls,         \* the number of calls of analyze started
  set_order,     \* the orders in which this process enumerates the sets it built
  pc,            \* the position of the current call
  cliches, weak_claims,                          \* lines 66-67
  originality, evidence, clarity, voice, overall, \* lines 70-76
  suggestions,                                   \* line 79
  all_issues, cursor, result,                         \* _highlight_text: lines 210-213
  returned       \* the calls that returned: text, edit and AnalysisResult

vars == << text, textstat, edit, calls, set_order, pc, cliches, weak_claims,
           originality, evidence, clarity, voice, overall, suggestions,
           all_issues, cursor, result, returned >>

scores == << originality, evidence, clarity, voice, overall >>

locals == << cliches, weak_claims, originality, evidence, clarity, voice, overall,
             suggestions, all_issues, cursor, result >>

AnalysisResult(ov, og, ev, cy, vc, cl, wk, sg, highlighted) ==
  [overall_score |-> ov, originality_score |-> og,
   evidence_score |-> ev, clarity_score |-> cy,
   voice_score |-> vc, cliches |-> cl, weak_claims |-> wk,
   suggestions |-> sg, highlighted_text |-> highlighted]

Returned(t, e, r) == [text |-> t, edit |-> e, result |-> r]

Init ==
  /\ text \in Inputs
  /\ textstat \in TextstatOutcomes
  /\ edit = "none"
  /\ calls = 0
  /\ set_order = {}
  /\ pc = "idle"
  /\ cliches = << >> /\ weak_claims = << >>
  /\ originality = Whole(0) /\ evidence = Whole(0) /\ clarity = Whole(0)
  /\ voice = Whole(0) /\ overall = Whole(0)
  /\ suggestions = << >>
  /\ all_issues = << >> /\ cursor = 0 /\ result = << >>
  /\ returned = << >>

\* the gate without the trimming
GatedUntrimmed(t) == t = << >> \/ Len(t) < 20

\* line 62: not text or len(text.strip()) < 20
Gated(t) == t = << >> \/ StripLen(t) < 20

\* lines 61-63: the call starts; a text under the length gate returns at once
Enter ==
  /\ calls' = calls + 1
  /\ cliches' = << >> /\ weak_claims' = << >>
  /\ originality' = Whole(0) /\ evidence' = Whole(0) /\ clarity' = Whole(0)
  /\ voice' = Whole(0) /\ overall' = Whole(0)
  /\ suggestions' = << >>
  /\ all_issues' = << >> /\ cursor' = 0 /\ result' = << >>
  /\ IF Gated(text)
       THEN /\ returned' = Append(returned,
                 Returned(text, edit,
                   AnalysisResult(Whole(0), Whole(0), Whole(0), Whole(0), Whole(0),
                                  << >>, << >>, << >>, text)))
            /\ edit' = "none"
            /\ pc' = "done"
       ELSE /\ pc' = "find"
            /\ UNCHANGED << returned, edit >>
  /\ UNCHANGED << text, textstat, set_order >>

\* the first call of analyze
Analyze ==
  /\ pc = "idle"
  /\ Enter

\* a further call of analyze in the same session (src/app.py, lines 163-165)
AnalyzeAgain ==
  /\ pc = "done"
  /\ calls < MaxCalls
  /\ Enter

\* lines 66-67
FindIssues ==
  /\ pc = "find"
  /\ cliches' = _find_cliches(text)
  /\ weak_claims' = _find_weak_claims(text)
  /\ pc' = "score"
  /\ UNCHANGED << text, textstat, edit, calls, set_order, scores, suggestions,
                  all_issues, cursor, result, returned >>

\* lines 70-76; an exception that leaves _calc_clarity ends the call
Score ==
  /\ pc = "score"
  /\ LET clar == _calc_clarity(text, textstat)
     IN  IF clar.raised
           THEN /\ pc' = "raised"
                /\ UNCHANGED scores
           ELSE /\ originality' = _calc_originality(text, cliches, weak_claims)
                /\ evidence' = _calc_evidence(text)
                /\ clarity' = clar.value
                /\ voice' = _calc_voice(text, weak_claims)
                /\ overall' = Weighted(originality', evidence', clarity', voice')
                /\ pc' = "suggest"
  /\ UNCHANGED << text, textstat, edit, calls, set_order, cliches, weak_claims,
                  suggestions, all_issues, cursor, result, returned >>

\* the order already fixed in this process for the set built from texts, if any
Known(texts) == {m \in set_order : m.list = texts}

\* lines 79-81: the set of cliche texts is enumerated in the order this process
\* gives it, the same at every call that builds the set from the same list
Suggest ==
  /\ pc = "suggest"
  /\ LET texts == Texts(cliches)
     IN  \E unique \in SetOrders(texts) :
           /\ \A m \in Known(texts) : m.order = unique
           /\ set_order' = IF texts = << >> THEN set_order
                           ELSE set_order \cup {[list |-> texts, order |-> unique]}
           /\ suggestions' = _generate_suggestions(text, cliches, weak_claims, originality,
                                                   evidence, clarity, voice, unique)
  /\ pc' = "highlight"
  /\ UNCHANGED << text, textstat, edit, calls, cliches, weak_claims, scores,
                  all_issues, cursor, result, returned >>

\* lines 210-212
Highlight ==
  /\ pc = "highlight"
  /\ all_issues' = SortedByStartReverse(cliches \o weak_claims)
  /\ result' = text
  /\ cursor' = 1
  /\ pc' = "splice"
  /\ UNCHANGED << text, textstat, edit, calls, set_order, cliches, weak_claims,
                  scores, suggestions, returned >>

\* lines 213-219: one pass of the loop
SpliceNext ==
  /\ pc = "splice"
  /\ cursor <= Len(all_issues)
  /\ result' = Splice(result, text, all_issues[cursor])
  /\ cursor' = cursor + 1
  /\ UNCHANGED << text, textstat, edit, calls, set_order, pc, cliches, weak_claims,
                  scores, suggestions, all_issues, returned >>

\* lines 221 and 86-96
Return ==
  /\ pc = "splice"
  /\ cursor > Len(all_issues)
  /\ returned' = Append(returned,
       Returned(text, edit,
         AnalysisResult(Round1(overall), Round1(originality), Round1(evidence),
                        Round1(clarity), Round1(voice),
                        cliches, weak_claims, suggestions, result)))
  /\ edit' = "none"
  /\ pc' = "done"
  /\ UNCHANGED << text, textstat, calls, set_order, locals >>

\* the number of analysed texts that came from an insertion
Insertions == Cardinality({k \in 1..Len(returned) : returned[k].edit = "insert"})

\* the user adds one more occurrence of a known cliche to the analysed text
InsertCliche ==
  /\ pc = "done"
  /\ edit = "none"
  /\ calls < MaxCalls
  /\ Insertions < MaxInserts
  /\ \E phrase \in InsertPhrases, gap \in 0..MaxGap :
       /\ gap <= SplitLen(text)
       /\ text' = InsertAt(text, phrase, gap)
  /\ edit' = "insert"
  /\ UNCHANGED << textstat, calls, set_order, pc, locals, returned >>

\* the application is started anew: a new interpreter process, a new string hash seed
Restart ==
  /\ pc = "done"
  /\ calls < MaxCalls
  /\ set_order # {}
  /\ set_order' = {}
  /\ UNCHANGED << text, textstat, edit, calls, pc, locals, returned >>

\* one call of analyze
Next ==
  \/ Analyze
  \/ FindIssues
  \/ Score
  \/ Suggest
  \/ Highlight
  \/ SpliceNext
  \/ Return

Spec == Init /\ [][Next]_vars

\* a session: calls of analyze one after the other, on the same text or on the
\* text with one more cliche, in the same process or in a new one
SessionInit ==
  /\ Init
  /\ textstat = [raises |-> "none", flesch |-> Frac(6486, 100), sentences |-> 2, words |-> 18]

SessionNext ==
  \/ Next
  \/ AnalyzeAgain
  \/ InsertCliche
  \/ Restart

SessionSpec == SessionInit /\ [][SessionNext]_vars

(***************************************************************************)
(* Properties.                                                             *)
(***************************************************************************)
\* the call that returned last
Last == returned[Len(returned)]

InRange(x) == Le(Whole(0), x) /\ Le(x, Whole(100))

ZeroResult(t) ==
  AnalysisResult(Whole(0), Whole(0), Whole(0), Whole(0), Whole(0), << >>, << >>, << >>, t)

NonWhitespaceLen(t) == Cardinality({j \in 1..Len(t) : t[j] \notin Whitespace})

\* C1: every component score and the overall score of every returned result
\* lie in [0, 100], whatever the number of cliches and weak claims.
C1_ScoresInRange ==
  pc = "done" =>
    /\ InRange(Last.result.originality_score)
    /\ InRange(Last.result.evidence_score)
    /\ InRange(Last.result.clarity_score)
    /\ InRange(Last.result.voice_score)
    /\ InRange(Last.result.overall_score)

\* C2 (as stated): a text with fewer than 20 non-whitespace characters gets
\* the all-zero result with no issues, no suggestions and the text unchanged.
C2_FewNonWhitespaceGated ==
  (pc = "done" /\ NonWhitespaceLen(Last.text) < 20) => Last.result = ZeroResult(Last.text)

\* C2 (amended): a text of fewer than 20 characters once leading and trailing
\* whitespace is trimmed, inner whitespace counted, gets the all-zero result
\* with no issues, no suggestions and the text unchanged, and no detection,
\* scoring, suggestion or highlighting step has run.
C2_ShortTrimmedGated ==
  (pc = "done" /\ StripLen(Last.text) < 20) =>
    /\ Last.result = ZeroResult(Last.text)
    /\ cliches = << >> /\ weak_claims = << >> /\ suggestions = << >>
    /\ all_issues = << >> /\ cursor = 0 /\ result = << >>

C2_Witness ==
  /\ pc = "done"
  /\ StripLen(Last.text) < 20
  /\ Len(Last.text) >= 20
  /\ Last.result = ZeroResult(Last.text)

\* the offsets in h at which a marker tag starts, and the length of that tag
OpenTags(h) ==
  {p \in 0..(Len(h) - 1) :
     /\ h[p + 1] = "<"
     /\ \/ LitAt(MarkOpen(CLICHE_COLOR), h, p, FALSE)
        \/ LitAt(MarkOpen(WEAK_COLOR), h, p, FALSE)}

CloseTags(h) == {p \in 0..(Len(h) - 1) : h[p + 1] = "<" /\ LitAt(MarkClose, h, p, FALSE)}

OpenLen == Len(MarkOpen(CLICHE_COLOR))

\* h with every opening and closing marker tag removed is t
StripsTo(h, t) ==
  LET opens  == OpenTags(h)
      closes == CloseTags(h)
      inTag(j) == \/ \E p \in opens : p < j /\ j <= p + OpenLen
                  \/ \E p \in closes : p < j /\ j <= p + Len(MarkClose)
      kept   == {j \in 1..Len(h) : ~inTag(j)}
      rank(j) == j - OpenLen * Cardinality({p \in opens : p < j})
                   - Len(MarkClose) * Cardinality({p \in closes : p < j})
  IN  /\ Cardinality(kept) = Len(t)
      /\ \A j \in kept : h[j] = t[rank(j)]

\* C3: removing the marker tags from highlighted_text gives back the input
\* text, whatever the issues, overlapping and nested ones included.
C3_HighlightRoundTrip ==
  pc = "done" => StripsTo(Last.result.highlighted_text, Last.text)

\* the calls whose text is the text of the call before with one more cliche
Inserted == {k \in 2..Len(returned) : returned[k].edit = "insert"}

\* C4 (as stated): adding one more occurrence of a known cliche to a text
\* never raises its originality score.
C4_ClicheNeverRaisesOriginality ==
  \A k \in Inserted :
    Le(returned[k].result.originality_score, returned[k - 1].result.originality_score)

\* the insertion keeps the text on its side of the length gate and of the
\* 100-character boundary, and it adds a cliche issue without removing others
SameRegime(before, after) ==
  /\ ~Gated(before.text) /\ ~Gated(after.text)
  /\ (Len(before.text) < 100) = (Len(after.text) < 100)
  /\ Len(after.result.cliches) >= Len(before.result.cliches) + 1
  /\ Len(after.result.weak_claims) >= Len(before.result.weak_claims)

\* C4 (amended): adding one more occurrence of a literal cliche phrase, as
\* words of its own, to a text does not raise the originality score, provided
\* both texts pass the length gate, both are shorter than 100 characters or
\* both are not, and the longer text has at least one more cliche issue and
\* no fewer weak-claim issues than the shorter one.
C4_ClicheLowersOriginalityInRegime ==
  \A k \in Inserted :
    SameRegime(returned[k - 1], returned[k]) =>
      Le(returned[k].result.originality_score, returned[k - 1].result.originality_score)

C4_Witness ==
  \E k \in Inserted :
    /\ SameRegime(returned[k - 1], returned[k])
    /\ Lt(returned[k].result.originality_score, returned[k - 1].result.originality_score)

\* 0.30 orig + 0.25 evid + 0.25 clar + 0.20 voice, as one fraction
Combination(o, e, c, v) ==
  Frac(6 * o.n * e.d * c.d * v.d + 5 * e.n * o.d * c.d * v.d
         + 5 * c.n * o.d * e.d * v.d + 4 * v.n * o.d * e.d * c.d,
       20 * o.d * e.d * c.d * v.d)

\* C5: for a text that passes the gate, overall_score is the weighted sum of
\* the unrounded component scores, rounded to one decimal; the components are
\* rounded only where they are stored in the result.
C5_OverallFromUnrounded ==
  (pc = "done" /\ ~Gated(Last.text)) =>
    /\ Last.result.overall_score = Round1(Combination(originality, evidence, clarity, voice))
    /\ Last.result.originality_score = Round1(originality)
    /\ Last.result.evidence_score = Round1(evidence)
    /\ Last.result.clarity_score = Round1(clarity)
    /\ Last.result.voice_score = Round1(voice)

\* x lies halfway between two tenths
IsTie(x) == (20 * x.n) % x.d = 0 /\ (10 * x.n) % x.d # 0

\* a result for which rounding the components first gives another overall
\* score, the weighted sum not being a tie between two tenths
C5_Witness ==
  /\ pc = "done"
  /\ ~Gated(Last.text)
  /\ ~IsTie(overall)
  /\ ~IsTie(Combination(Last.result.originality_score, Last.result.evidence_score,
                        Last.result.clarity_score, Last.result.voice_score))
  /\ Last.result.overall_score #
       Round1(Combination(Last.result.originality_score, Last.result.evidence_score,
                          Last.result.clarity_score, Last.result.voice_score))

\* C6: two calls of analyze on the same text return the same result in every
\* field, the cliche quoted in the first suggestion included.
C6_SameTextSameResult ==
  \A j, k \in 1..Len(returned) :
    returned[j].text = returned[k].text => returned[j].result = returned[k].result

IssueTexts(issues) == {Lower(issues[j].text) : j \in 1..Len(issues)}

\* C8: on the first example text the cliche issues include "leverage",
\* "synergy" and "move the needle", and the originality score is below 50.
C8_Example1 ==
  (pc = "done" /\ Last.text = EXAMPLE_1) =>
    /\ {<<"l","e","v","e","r","a","g","e">>, <<"s","y","n","e","r","g","y">>, <<"m","o","v","e"," ","t","h","e"," ","n","e","e","d","l","e">>} \subseteq IssueTexts(Last.result.cliches)
    /\ Lt(Last.result.originality_score, Whole(50))

\* C9: on the third example text there are at least 4 weak-claim issues, the
\* voice score is below 60 and the suggestion to remove hedging words is made.
C9_Example3 ==
  (pc = "done" /\ Last.text = EXAMPLE_3) =>
    /\ Len(Last.result.weak_claims) >= 4
    /\ Lt(Last.result.voice_score, Whole(60))
    /\ SUGGEST_VOICE \in Range(Last.result.suggestions)

\* C10: when there is a cliche issue, the first suggestion quotes the text of
\* the first cliche issue, in issue order.
C10_FirstSuggestionQuotesFirstCliche ==
  (pc = "done" /\ Last.result.cliches # << >>) =>
    Last.result.suggestions[1] = SUGGEST_CLICHE(Last.result.cliches[1].text)

\* the number of the rule whose wording a suggestion carries: 1 to 6 in the
\* order of lines 186-203, 7 for the praise of line 205, 0 for any other text
RuleOf(s) ==
  IF s[1] = SUGGEST_CLICHE(<< >>)[1] /\ s[2] # << >> /\ s[3] = SUGGEST_CLICHE(<< >>)[3] THEN 1
  ELSE IF s = SUGGEST_EVIDENCE THEN 2
  ELSE IF s = SUGGEST_CLARITY THEN 3
  ELSE IF s = SUGGEST_VOICE THEN 4
  ELSE IF s = SUGGEST_ORIGINALITY THEN 5
  ELSE IF s = SUGGEST_EXPAND THEN 6
  ELSE IF s = SUGGEST_PRAISE THEN 7
  ELSE 0

\* the rules whose condition holds of the unrounded scores of the call
FiredRules ==
  {r \in 1..6 :
     \/ r = 1 /\ Len(cliches) > 0
     \/ r = 2 /\ Lt(evidence, Whole(60))
     \/ r = 3 /\ Lt(clarity, Whole(60))
     \/ r = 4 /\ Lt(voice, Whole(60))
     \/ r = 5 /\ Lt(originality, Whole(50))
     \/ r = 6 /\ Cardinality(WordStarts(text)) < 50}

\* C11: the suggestions of a scored text are one per rule whose condition
\* holds of the unrounded scores (cliche found, evidence < 60, clarity < 60,
\* voice < 60, originality < 50, fewer than 50 words), in that order and no
\* other, so between 1 and 6 of them; the praise alone is returned exactly
\* when no rule holds.
C11_SuggestionRules ==
  (pc = "done" /\ ~Gated(Last.text)) =>
    LET sg    == Last.result.suggestions
        rules == [j \in 1..Len(sg) |-> RuleOf(sg[j])]
    IN  /\ Len(sg) >= 1 /\ Len(sg) <= 6
        /\ \A j \in 1..Len(sg) : rules[j] # 0
        /\ \A j \in 1..(Len(sg) - 1) : rules[j] < rules[j + 1]
        /\ FiredRules # {} => Range(rules) = FiredRules
        /\ FiredRules = {} <=> sg = << SUGGEST_PRAISE >>

\* the clarity rule fires on an unrounded score that rounds to 60.0, together
\* with an earlier rule, while a rule in between does not fire
C11_Witness ==
  /\ pc = "done"
  /\ ~Gated(Last.text)
  /\ Last.result.clarity_score = Whole(60)
  /\ {1, 3} \subseteq FiredRules
  /\ 2 \notin FiredRules
  /\ Len(Last.result.suggestions) >= 3

\* no rule holds: the praise is the only suggestion
PraiseReturned ==
  /\ pc = "done"
  /\ ~Gated(Last.text)
  /\ FiredRules = {}
  /\ Last.result.suggestions = << SUGGEST_PRAISE >>

RECURSIVE MatchCounts(_, _, _)

\* the number of matches in t of each pattern of a table, from the i-th on
MatchCounts(patterns, i, t) ==
  IF i > Len(patterns) THEN << >>
  ELSE << Len(FindIter(patterns[i], t, TRUE)) >> \o MatchCounts(patterns, i + 1, t)

RECURSIVE SumTo(_, _)

\* f[1] + ... + f[i]
SumTo(f, i) == IF i = 0 THEN 0 ELSE f[i] + SumTo(f, i - 1)

\* found holds, pattern after pattern in table order, one issue of the given
\* type and severity per non-overlapping match of the pattern in t, by
\* ascending start: each issue is the match the pattern makes at its start,
\* no issue starts before the end of the one before it, and the pattern
\* matches nowhere outside the spans of its issues
InDetectionOrder(found, patterns, t, type, severity) ==
  LET counts   == MatchCounts(patterns, 1, t)
      first(i) == SumTo(counts, i - 1) + 1
      last(i)  == SumTo(counts, i)
  IN  /\ Len(found) = SumTo(counts, Len(patterns))
      /\ \A i \in 1..Len(patterns) :
           /\ \A j \in first(i)..last(i) :
                /\ found[j].type = type
                /\ found[j].severity = severity
                /\ LET ends == Try(patterns[i], t, found[j].start, TRUE)
                   IN  ends # << >> /\ ends[1] = found[j].end
                /\ j < last(i) => found[j].end <= found[j + 1].start
           /\ \A p \in 0..Len(t) :
                Try(patterns[i], t, p, TRUE) # << >> =>
                  \E j \in first(i)..last(i) : found[j].start <= p /\ p < found[j].end

\* sorted is composed by descending start, issues of equal start in the
\* order they have in composed
OrderedFrom(sorted, composed) ==
  LET at(x) == CHOOSE j \in 1..Len(composed) : composed[j] = x
  IN  /\ Len(sorted) = Len(composed)
      /\ Range(sorted) = Range(composed)
      /\ \A j, k \in 1..Len(sorted) :
           j < k => \/ sorted[j].start > sorted[k].start
                    \/ sorted[j].start = sorted[k].start /\ at(sorted[j]) < at(sorted[k])

\* C12: the cliche list holds one issue per non-overlapping match of each
\* cliche pattern, by pattern position in the table and then by ascending
\* start, of type cliche and severity high; the weak-claim list is built the
\* same way from the weak-claim table, of type weak_claim and severity
\* medium; the list that is highlighted is composed of all cliches followed
\* by all weak claims.
C12_DetectionOrder ==
  (pc = "done" /\ ~Gated(Last.text)) =>
    /\ InDetectionOrder(Last.result.cliches, CLICHES, Last.text, "cliche", "high")
    /\ InDetectionOrder(Last.result.weak_claims, WEAK_PATTERNS, Last.text, "weak_claim", "medium")
    /\ OrderedFrom(all_issues, Last.result.cliches \o Last.result.weak_claims)

\* cliches of two patterns, the one of the earlier pattern later in the text,
\* and a weak claim
C12_Witness ==
  /\ pc = "done"
  /\ \E j \in 1..(Len(Last.result.cliches) - 1) :
       Last.result.cliches[j].start > Last.result.cliches[j + 1].start
  /\ Len(Last.result.weak_claims) >= 1

\* the offsets of an issue lie in t and its text is what t holds between them
ValidIn(issue, t) ==
  /\ 0 <= issue.start
  /\ issue.start < issue.end
  /\ issue.end <= Len(t)
  /\ issue.text = [j \in 1..(issue.end - issue.start) |-> t[issue.start + j]]

\* C13: every issue satisfies 0 <= start < end <= length of the input text
\* and its text is the input's substring [start, end); this holds of the
\* issues found, while the highlighted text is built, and of the issues
\* returned, which are the issues found.
C13_OffsetsIntoOriginal ==
  /\ \A j \in 1..Len(cliches) : ValidIn(cliches[j], text)
  /\ \A j \in 1..Len(weak_claims) : ValidIn(weak_claims[j], text)
  /\ \A j \in 1..Len(all_issues) : ValidIn(all_issues[j], text)
  /\ pc = "done" =>
       /\ Last.result.cliches = cliches
       /\ Last.result.weak_claims = weak_claims
       /\ \A j \in 1..Len(Last.result.cliches) : ValidIn(Last.result.cliches[j], Last.text)
       /\ \A j \in 1..Len(Last.result.weak_claims) :
            ValidIn(Last.result.weak_claims[j], Last.text)

\* a returned result with several weak claims, one of them with a capital
\* letter, and a highlighted text that is longer than the input
C13_Witness ==
  /\ pc = "done"
  /\ Len(Last.result.weak_claims) >= 2
  /\ \E j \in 1..Len(Last.result.weak_claims) :
       Last.result.weak_claims[j].text # Lower(Last.result.weak_claims[j].text)
  /\ Len(Last.result.highlighted_text) > Len(Last.text)

\* C14: the issues are spliced in descending start order, and when an issue
\* is about to be spliced the working string still holds the characters of
\* the input at the offsets [0, end) of that issue, also when the issue ends
\* beyond the start of an issue spliced before it.
C14_SpliceRangeIntact ==
  (pc = "splice" /\ cursor <= Len(all_issues)) =>
    /\ \A j \in 1..(Len(all_issues) - 1) : all_issues[j].start >= all_issues[j + 1].start
    /\ Slice(result, 0, all_issues[cursor].end) = Slice(text, 0, all_issues[cursor].end)

\* no two of the issues share a character of the text
Disjoint(issues) ==
  \A j, k \in 1..Len(issues) :
    j # k => issues[j].end <= issues[k].start \/ issues[k].end <= issues[j].start

\* disjoint issues from left to right
LeftToRight(issues) ==
  [q \in 1..Len(issues) |->
     issues[CHOOSE j \in 1..Len(issues) :
              Cardinality({m \in 1..Len(issues) : issues[m].start < issues[j].start}) = q - 1]]

RECURSIVE Marked(_, _, _, _)

\* t from offset from on, with the span of each of the issues asc[k], asc[k+1],
\* ... wrapped in one marker of the colour of its type
Marked(t, asc, k, from) ==
  IF k > Len(asc) THEN SliceFrom(t, from)
  ELSE Slice(t, from, asc[k].start)
         \o MarkOpen(IF asc[k].type = "cliche" THEN CLICHE_COLOR ELSE WEAK_COLOR)
         \o Slice(t, asc[k].start, asc[k].end)
         \o MarkClose
         \o Marked(t, asc, k + 1, asc[k].end)

\* C15: when the spans of all issues, cliches and weak claims together, are
\* pairwise disjoint, highlighted_text is the input with each span replaced
\* by one marker around the characters of the span, coloured #f43f5e for a
\* cliche and #f59e0b for a weak claim, the text outside the spans unchanged
\* and in order; there are as many markers as issues.
C15_DisjointHighlight ==
  LET issues == Last.result.cliches \o Last.result.weak_claims
      h      == Last.result.highlighted_text
  IN  (pc = "done" /\ Disjoint(issues)) =>
        /\ h = Marked(Last.text, LeftToRight(issues), 1, 0)
        /\ Cardinality(OpenTags(h)) = Len(issues)
        /\ Cardinality(CloseTags(h)) = Len(issues)

\* a returned result with at least three disjoint issues, a cliche and a
\* weak claim among them
C15_Witness ==
  /\ pc = "done"
  /\ Disjoint(Last.result.cliches \o Last.result.weak_claims)
  /\ Len(Last.result.cliches) >= 1
  /\ Len(Last.result.weak_claims) >= 1
  /\ Len(Last.result.cliches) + Len(Last.result.weak_claims) >= 3

\* the word of t that starts at position i, in lower case
LoweredWord(t, i) == Lower(SubSeq(t, i, WordEnd(t, i)))

\* the number of distinct lowered words of t: the words that no earlier word equals
UniqueWords(t) ==
  Cardinality({i \in WordStarts(t) :
                 \A j \in WordStarts(t) : j < i => LoweredWord(t, j) # LoweredWord(t, i)})

\* x = num / den clamped to [0, 100], for den > 0
IsClamped(x, num, den) ==
  IF num < 0 THEN x = Whole(0)
  ELSE IF num > 100 * den THEN x = Whole(100)
  ELSE x.n * den = x.d * num

\* C16: with C cliche issues, W weak-claim issues, U unique and N total
\* lowered whitespace-split words, originality is f * (100 - 8C - 3W + 10U/N)
\* clamped to [0, 100], the bonus being 0 when N = 0 and f being 0.8 for a
\* text of fewer than 100 characters and 1 otherwise; a text of fewer than
\* 100 characters scores at most 88.
C16_OriginalityFormula ==
  (pc = "done" /\ ~Gated(Last.text)) =>
    LET C == Len(Last.result.cliches)
        W == Len(Last.result.weak_claims)
        N == Cardinality(WordStarts(Last.text))
        U == UniqueWords(Last.text)
        f == IF Len(Last.text) < 100 THEN 8 ELSE 10
    IN  /\ IF N = 0 THEN IsClamped(originality, f * (100 - 8 * C - 3 * W), 10)
           ELSE IsClamped(originality, f * ((100 - 8 * C - 3 * W) * N + 10 * U), 10 * N)
        /\ Len(Last.text) < 100 => Le(originality, Whole(88))
        /\ Last.result.originality_score = Round1(originality)

\* a text of fewer than 100 characters with a cliche, a weak claim and a
\* repeated word, scored strictly between 0 and 88
C16_Witness ==
  /\ pc = "done"
  /\ ~Gated(Last.text)
  /\ Len(Last.text) < 100
  /\ Len(Last.result.cliches) >= 1
  /\ Len(Last.result.weak_claims) >= 1
  /\ UniqueWords(Last.text) < Cardinality(WordStarts(Last.text))
  /\ Lt(Whole(0), originality) /\ Lt(originality, Whole(88))

\* a text of fewer than 100 characters that scores 88
ShortTextAt88 ==
  pc = "done" /\ Len(Last.text) < 100 /\ originality = Whole(88)

\* a text of 100 characters or more whose score is clamped to 100
LongTextClamped ==
  pc = "done" /\ Len(Last.text) >= 100 /\ originality = Whole(100)
     /\ Len(Last.result.cliches) = 0 /\ Len(Last.result.weak_claims) = 0

\* the units of a statistic
UNITS == {<<"%">>, <<"p","e","r","c","e","n","t">>, <<"m","i","l","l","i","o","n">>, <<"b","i","l","l","i","o","n">>, <<"t","h","o","u","s","a","n","d">>}

\* what counts as a reference besides a bracketed or parenthetical span
REFERENCE_MARKS == {<<"e","t"," ","a","l",".">>, <<".","p","d","f">>, <<"h","t","t","p">>}

\* a digit of t is followed, after any whitespace, by a unit in any case
HasStatistic(t) ==
  \E d \in 1..Len(t) :
    /\ t[d] \in Digits
    /\ \E u \in d..Len(t) :
         /\ \A j \in (d + 1)..u : t[j] \in Whitespace
         /\ \E unit \in UNITS : LitAt(unit, t, u, TRUE)

\* t holds an opening and, later on the same line, the closing character
HasSpan(t, opening, closing) ==
  \E i, j \in 1..Len(t) :
    /\ i < j
    /\ t[i] = opening
    /\ t[j] = closing
    /\ \A m \in (i + 1)..(j - 1) : t[m] # "\n"

\* t holds a bracketed or parenthetical span, "et al.", ".pdf" or "http"
HasReference(t) ==
  \/ HasSpan(t, "[", "]")
  \/ HasSpan(t, "(", ")")
  \/ \E mark \in REFERENCE_MARKS, p \in 0..Len(t) : LitAt(mark, t, p, FALSE)

\* 40 + 8M + 15S + 10R for the text t
EvidenceSum(t) ==
  LET counts == MatchCounts(EVIDENCE_PATTERNS, 1, t)
  IN  40 + 8 * SumTo(counts, Len(counts))
         + (IF HasStatistic(t) THEN 15 ELSE 0)
         + (IF HasReference(t) THEN 10 ELSE 0)

\* C17: the evidence score of a text that passes the length gate is
\* min(100, 40 + 8M + 15S + 10R), M being the number of matches of all
\* evidence patterns together, every match counted, S being 1 when a number
\* followed by a unit (%, percent, million, billion, thousand) occurs and R
\* being 1 when a bracketed or parenthetical span, "et al.", ".pdf" or "http"
\* occurs; the score is never below 40 and never above 100.
C17_EvidenceFormula ==
  (pc = "done" /\ ~Gated(Last.text)) =>
    LET total == EvidenceSum(Last.text)
    IN  /\ evidence = Whole(IF total > 100 THEN 100 ELSE total)
        /\ Last.result.evidence_score = evidence
        /\ Le(Whole(40), evidence) /\ Le(evidence, Whole(100))

\* a text in which one pattern matches more than once, with a statistic and
\* a reference, whose sum exceeds 100
C17_Witness ==
  /\ pc = "done"
  /\ ~Gated(Last.text)
  /\ \E i \in 1..Len(EVIDENCE_PATTERNS) : Len(FindIter(EVIDENCE_PATTERNS[i], Last.text, TRUE)) >= 2
  /\ HasStatistic(Last.text)
  /\ HasReference(Last.text)
  /\ EvidenceSum(Last.text) > 100
  /\ Last.result.evidence_score = Whole(100)

\* a text with a match, a statistic and no reference, scored below 100
EvidenceBelowCap ==
  /\ pc = "done"
  /\ ~Gated(Last.text)
  /\ HasStatistic(Last.text) /\ ~HasReference(Last.text)
  /\ Lt(Whole(55), evidence) /\ Lt(evidence, Whole(100))

=============================================================================
